---- MODULE Spec2Model ----
(***************************************************************************)
(* VoiceScrollController (src/script.js): a speech-recognition widget that *)
(* maps recognised words to scroll actions.  The file holds two variants   *)
(* of the class (lines 1-360 and 362-665); `variant` selects which one a   *)
(* behaviour runs.                                                         *)
(*                                                                         *)
(* Strings are sequences of one-character strings, so that lower-casing,   *)
(* trimming, splitting and the word-boundary regular expression are        *)
(* computed character by character.  Time is counted in abstract units.    *)
(***************************************************************************)
EXTENDS Integers, Sequences, FiniteSets, TLC

VARIABLES
    variant,          \* 1: class at lines 1-337, 2: class at lines 362-657
    supported,        \* window.SpeechRecognition || webkit... is defined
    scrollAmount,     \* this.config.scrollAmount
    now,              \* Date.now()
    isListening,      \* this.state.isListening
    lastCommand,      \* this.state.lastCommand
    lastCommandTime,  \* this.state.lastCommandTime
    recognition,      \* this.recognition: a session id, or Null
    idleTimeout,      \* this.idleTimeout: a timer id, or Null
    sessions,         \* host: status of every SpeechRecognition object
    timers,           \* host: the idle timers not yet fired or cleared
    scrollY,          \* host: window.scrollY
    heard,            \* history: the last token that selected a command
    ev                \* history: the handler that ran last, its input, its log

vars == <<variant, supported, scrollAmount, now, isListening, lastCommand, lastCommandTime,
          recognition, idleTimeout, sessions, timers, scrollY, heard, ev>>

----------------------------------------------------------------------------
(* Bounds of the model *)

\* how long after the page loads the clock runs
MaxTime == 3
\* how many SpeechRecognition objects are started at once
MaxSessions == 2

\* The configuration the constructor is given (config.debounceDelay,
\* config.idleDuration, config.scrollAmount) and the geometry of the page, in
\* small units of time and of length
DebounceDelay == 2
IdleDuration == 3
ScrollAmount == 1
\* window.innerHeight / 2
HalfPage == 2
\* the largest offset the page can be scrolled to
MaxScrollY == 2
\* the scroll calls of one handler that may throw: the first MaxFail of them
MaxFail == 1

\* window.innerHeight
InnerHeight == 2 * HalfPage
\* document.body.scrollHeight
ScrollHeight == InnerHeight + MaxScrollY

\* null
Null == 0

\* Date.now() when the page loads: far more than debounceDelay after the epoch
LoadTime == DebounceDelay + 1

----------------------------------------------------------------------------
(* Strings *)

Lower == <<"a","b","c","d","e","f","g","h","i","j","k","l","m",
           "n","o","p","q","r","s","t","u","v","w","x","y","z">>
Upper == <<"A","B","C","D","E","F","G","H","I","J","K","L","M",
           "N","O","P","Q","R","S","T","U","V","W","X","Y","Z">>
Digits == {"0","1","2","3","4","5","6","7","8","9"}

Range(s) == {s[i] : i \in DOMAIN s}

\* \w of a JavaScript regular expression
IsWordChar(c) == c \in Range(Lower) \cup Range(Upper) \cup Digits \cup {"_"}

\* \s of a JavaScript regular expression (the characters the model draws)
IsSpace(c) == c \in {" ", "\t", "\n"}

SubStr(s, i, j) == [k \in 1..(j - i + 1) |-> s[i + k - 1]]

toLowerCase(s) ==
    [i \in DOMAIN s |->
        IF \E k \in 1..26 : Upper[k] = s[i]
        THEN Lower[CHOOSE k \in 1..26 : Upper[k] = s[i]]
        ELSE s[i]]

trim(s) ==
    IF \A i \in DOMAIN s : IsSpace(s[i]) THEN <<>>
    ELSE LET first == CHOOSE i \in DOMAIN s :
                          /\ ~IsSpace(s[i])
                          /\ \A j \in 1..(i - 1) : IsSpace(s[j])
             last  == CHOOSE i \in DOMAIN s :
                          /\ ~IsSpace(s[i])
                          /\ \A j \in (i + 1)..Len(s) : IsSpace(s[j])
         IN  SubStr(s, first, last)

\* String.prototype.split(/\s+/)
RECURSIVE split(_)
split(s) ==
    IF \A i \in DOMAIN s : ~IsSpace(s[i]) THEN <<s>>
    ELSE LET i == CHOOSE k \in DOMAIN s :
                      /\ IsSpace(s[k])
                      /\ \A j \in 1..(k - 1) : ~IsSpace(s[j])
             rest == {k \in (i + 1)..Len(s) : ~IsSpace(s[k])}
             j == IF rest = {} THEN Len(s) + 1
                  ELSE CHOOSE k \in rest : \A m \in rest : k <= m
         IN  <<SubStr(s, 1, i - 1)>> \o split(SubStr(s, j, Len(s)))

----------------------------------------------------------------------------
(* Commands, noise words, matching *)

Undefined == <<>>

cUp     == <<"u","p">>
cDown   == <<"d","o","w","n">>
cTop    == <<"t","o","p">>
cBottom == <<"b","o","t","t","o","m">>
cFly    == <<"f","l","y">>
cJump   == <<"j","u","m","p">>
cStop   == <<"s","t","o","p">>

\* Object.keys(this.commands), in declaration order
commands(v) ==
    IF v = 1 THEN <<cUp, cDown, cTop, cBottom, cFly, cJump, cStop>>
    ELSE <<cUp, cDown, cTop, cBottom, cFly, cJump>>

noiseWords(v) ==
    LET common == { <<"u","h">>, <<"u","m">>, <<"l","i","k","e">>,
                    <<"y","o","u"," ","k","n","o","w">>, <<"s","o">>,
                    <<"o","h","h","h">>, <<"h","e","y","y">>,
                    <<"h","a","a","a","a">>,
                    <<"s","h","h","s","h","s","h","h">> }
    IN  IF v = 1
        THEN common \cup { <<"t","h","e">>, <<"a">>, <<"a","n">> }
        ELSE common

cleanTranscript(v, transcript) ==
    LET words == split(trim(toLowerCase(transcript)))
        Keep(word) == IF v = 1
                      THEN Len(word) > 0 /\ word \notin noiseWords(v)
                      ELSE word \notin noiseWords(v)
    IN  SelectSeq(words, Keep)

\* \b at position p of word: between word[p-1] and word[p]
WordBoundary(word, p) ==
    LET before == p > 1 /\ IsWordChar(word[p - 1])
        after  == p <= Len(word) /\ IsWordChar(word[p])
    IN  before # after

\* seeded fault: the name is looked for without the word boundaries
RegExpTest_noBoundary(cmd, word) ==
    \E i \in 1..(Len(word) - Len(cmd) + 1) :
        toLowerCase(SubStr(word, i, i + Len(cmd) - 1)) = toLowerCase(cmd)

\* new RegExp('\\b' + cmd + '\\b', 'i').test(word)
RegExpTest(cmd, word) ==
    \E i \in 1..(Len(word) - Len(cmd) + 1) :
        /\ toLowerCase(SubStr(word, i, i + Len(cmd) - 1)) = toLowerCase(cmd)
        /\ WordBoundary(word, i)
        /\ WordBoundary(word, i + Len(cmd))

\* Object.keys(this.commands).find(...)
findMatchingCommand(v, word) ==
    LET cs == commands(v)
        hits == {k \in DOMAIN cs : RegExpTest(cs[k], word)}
    IN  IF hits = {} THEN Undefined
        ELSE cs[CHOOSE k \in hits : \A m \in hits : k <= m]

----------------------------------------------------------------------------
(* Inputs *)

\* A continuous recogniser reports each utterance with a leading space
RECURSIVE Utterance(_)
Utterance(ws) ==
    IF ws = <<>> THEN <<>> ELSE <<" ">> \o Head(ws) \o Utterance(Tail(ws))

\* Words as the recogniser reports them
wUp   == <<"u","p">>
wDown == <<"D","o","w","n">>
wStop == <<"s","t","o","p">>
wUm   == <<"u","m">>
wThe  == <<"t","h","e">>

\* The word sequences spoken
Utterances ==
    { <<>>, <<wUm>>, <<wUm, wThe>>, <<wUp>>, <<wUp, wUp>>, <<wUp, wDown>>,
      <<wThe, wDown>>, <<wStop>>, <<wStop, wUp>>, <<wUp, wDown, wUp>> }

\* The utterances a result notification may carry
Transcripts == {Utterance(ws) : ws \in Utterances}

\* Single words of a wider vocabulary, as the recogniser reports them
wTop      == <<"t","o","p">>
wBottom   == <<"b","o","t","t","o","m">>
wFly      == <<"F","l","y">>
wJump     == <<"j","u","m","p">>
wBottomUp == <<"b","o","t","t","o","m","-","u","p">>
wTopDown  == <<"t","o","p","-","d","o","w","n">>
wStopped  == <<"s","t","o","p","p","e","d">>
wUpward   == <<"u","p","w","a","r","d">>
wJumpBang == <<"j","u","m","p","!">>
wHello    == <<"h","e","l","l","o">>

Words == { wUp, wDown, wTop, wBottom, wFly, wJump, wStop, wBottomUp,
           wTopDown, wStopped, wUpward, wJumpBang, wHello, wUm }

ErrorKinds == {"not-allowed", "permission-denied", "no-speech",
               "audio-capture", "network", "aborted"}

\* window.confirm's answer; variant 2 shows an alert, which has none
Answers == IF variant = 1 THEN BOOLEAN ELSE {TRUE}

\* The values of cleanTranscript and findMatchingCommand on the inputs drawn,
\* computed once
Heard == Transcripts \cup {Utterance(<<w>>) : w \in Words}

cleaned == [v \in {1, 2} |-> [t \in Heard |-> cleanTranscript(v, t)]]

Tokens == UNION {Range(cleaned[v][t]) : v \in {1, 2}, t \in Heard}

matching == [v \in {1, 2} |-> [w \in Tokens |-> findMatchingCommand(v, w)]]


----------------------------------------------------------------------------
(* The controller.  Its methods are operators from a record st of the      *)
(* mutable state (the controller's fields, the host's sessions, timers and *)
(* scroll offset, and the log of what the running handler did) to the      *)
(* record after the call.                                                  *)

SessionIds == 1..MaxSessions

Min(S) == CHOOSE x \in S : \A y \in S : x <= y

\* clearTimeout(id)
clearTimeout(st, id) ==
    [st EXCEPT !.timers = {t \in st.timers : t.id # id}]

\* setTimeout(callback, delay): the new timer's id
setTimeout(st, delay) ==
    LET id == Min({i \in 1..(Cardinality(st.timers) + 1) :
                      \A t \in st.timers : t.id # i})
    IN  [st EXCEPT !.timers = @ \cup {[id |-> id, deadline |-> now + delay]},
                   !.idleTimeout = id]

clearIdleTimeout(st) ==
    IF st.idleTimeout # Null
    THEN [clearTimeout(st, st.idleTimeout) EXCEPT !.idleTimeout = Null]
    ELSE st

\* seeded fault: the previous timer is not cancelled
resetIdleTimeout_noClear(st) ==
    setTimeout(st, IdleDuration)

resetIdleTimeout(st) ==
    setTimeout(clearIdleTimeout(st), IdleDuration)

updateUIState(st, isActive) ==
    [st EXCEPT !.isListening = isActive]

\* SpeechRecognition.prototype.stop(): a started session ends later, with an
\* end notification; on a session that is not started it does nothing
sessionStop(st, id) ==
    IF st.sessions[id] = "running"
    THEN [st EXCEPT !.sessions[id] = "stopping"]
    ELSE st

\* seeded fault: stop also forgets the last command
stopRecognition_resetsLast(st) ==
    LET s1 == IF st.recognition # Null
              THEN [sessionStop(st, st.recognition) EXCEPT !.recognition = Null]
              ELSE st
    IN  [updateUIState(clearIdleTimeout(s1), FALSE)
            EXCEPT !.lastCommand = <<>>, !.lastCommandTime = 0]

stopRecognition(st) ==
    LET s1 == IF st.recognition # Null
              THEN [sessionStop(st, st.recognition) EXCEPT !.recognition = Null]
              ELSE st
    IN  updateUIState(clearIdleTimeout(s1), FALSE)

\* window.scrollTo({top, behavior: 'smooth'}): the page ends at the nearest
\* offset it can show; the requested offsets are kept in st.scrolled.  The
\* call numbered st.failAt of the running handler throws instead (0: none).
scrollTo(st, top) ==
    LET y == IF top < 0 THEN 0 ELSE IF top > MaxScrollY THEN MaxScrollY ELSE top
        n == st.calls + 1
    IN  IF n = st.failAt
        THEN [st EXCEPT !.calls = n, !.scrolled = Append(@, top),
                        !.thrown = TRUE]
        ELSE [st EXCEPT !.calls = n, !.scrolled = Append(@, top),
                        !.scrollY = y]

Max2(a, b) == IF a >= b THEN a ELSE b
Min2(a, b) == IF a <= b THEN a ELSE b

smoothScroll(st, position) ==
    IF variant = 1
    THEN scrollTo(st, Max2(0, Min2(position, ScrollHeight)))
    ELSE scrollTo(st, Max2(0, position))

\* this.commands[command].action()
action(st, command) ==
    CASE command = cUp     -> smoothScroll(st, st.scrollY - scrollAmount)
      [] command = cDown   -> smoothScroll(st, st.scrollY + scrollAmount)
      [] command = cTop    -> smoothScroll(st, 0)
      [] command = cBottom -> smoothScroll(st, ScrollHeight)
      [] command = cFly    -> smoothScroll(st, st.scrollY - HalfPage)
      [] command = cJump   -> smoothScroll(st, st.scrollY + HalfPage)
      [] command = cStop   -> stopRecognition(st)

\* seeded fault: the delay itself already lets the command through
canExecuteCommand_atDelay(st, command) ==
    LET timeSinceLastCommand == now - st.lastCommandTime
    IN  \/ command # st.lastCommand
        \/ timeSinceLastCommand >= DebounceDelay

canExecuteCommand(st, command) ==
    LET timeSinceLastCommand == now - st.lastCommandTime
    IN  \/ command # st.lastCommand
        \/ timeSinceLastCommand > DebounceDelay

\* seeded fault: lastCommandTime is not updated
executeCommand_keepsTime(st, command) ==
    LET s1 == action([st EXCEPT !.invoked = Append(@, command)], command)
    IN  [s1 EXCEPT !.lastCommand = command]

\* seeded fault: the fields are updated before the action is called
executeCommand_updatesFirst(st, command) ==
    LET s0 == [st EXCEPT !.lastCommand = command, !.lastCommandTime = now,
                         !.invoked = Append(@, command)]
        s1 == action(s0, command)
    IN  IF s1.thrown
        THEN [s1 EXCEPT !.thrown = FALSE, !.caught = TRUE]
        ELSE s1

\* try { action(); lastCommand = ...; lastCommandTime = ... } catch { log }:
\* st.caught tells that the catch branch ran.  (showCommandFeedback only
\* recolours the icon and is left out.)
executeCommand(st, command) ==
    LET s1 == action([st EXCEPT !.invoked = Append(@, command)], command)
    IN  IF s1.thrown
        THEN [s1 EXCEPT !.thrown = FALSE, !.caught = TRUE]
        ELSE [s1 EXCEPT !.lastCommand = command, !.lastCommandTime = now]

\* seeded fault: a suppressed repetition restarts the debounce interval
processCommand_touchesTime(st, word) ==
    LET command == matching[variant][word]
        s0 == [st EXCEPT !.invoked = <<>>, !.scrolled = <<>>, !.caught = FALSE]
        s1 == IF command # Undefined
              THEN IF canExecuteCommand(s0, command)
                   THEN executeCommand(s0, command)
                   ELSE [s0 EXCEPT !.lastCommandTime = now]
              ELSE s0
        entry == [word |-> word, command |-> command,
                  lastCommand |-> st.lastCommand,
                  lastCommandTime |-> st.lastCommandTime,
                  listening |-> st.isListening, prev |-> st.heard,
                  at |-> now, invoked |-> s1.invoked,
                  scrolled |-> s1.scrolled, threw |-> s1.caught]
    IN  [s1 EXCEPT !.log = Append(@, entry),
                   !.heard = IF command = Undefined THEN @
                             ELSE [command |-> command, at |-> now,
                                   executed |-> s1.invoked # <<>>
                                                /\ ~s1.caught]]

\* One log entry per token: the token, the command it selected, the state it
\* met (debounce fields, isListening, the command token before it), the
\* actions invoked and offsets requested for it, and whether the action threw.
processCommand(st, word) ==
    LET command == matching[variant][word]
        s0 == [st EXCEPT !.invoked = <<>>, !.scrolled = <<>>, !.caught = FALSE]
        s1 == IF command # Undefined /\ canExecuteCommand(s0, command)
              THEN executeCommand(s0, command)
              ELSE s0
        entry == [word |-> word, command |-> command,
                  lastCommand |-> st.lastCommand,
                  lastCommandTime |-> st.lastCommandTime,
                  listening |-> st.isListening, prev |-> st.heard,
                  at |-> now, invoked |-> s1.invoked,
                  scrolled |-> s1.scrolled, threw |-> s1.caught]
    IN  [s1 EXCEPT !.log = Append(@, entry),
                   !.heard = IF command = Undefined THEN @
                             ELSE [command |-> command, at |-> now,
                                   executed |-> s1.invoked # <<>>
                                                /\ ~s1.caught]]

RECURSIVE forEach(_, _)
forEach(st, words) ==
    IF words = <<>> THEN st
    ELSE forEach(processCommand(st, Head(words)), Tail(words))

\* seeded fault: the idle timer is re-armed only when words are left
handleRecognitionResult_armsOnWords(st, transcript) ==
    IF cleaned[variant][transcript] = <<>>
    THEN st
    ELSE forEach(resetIdleTimeout(st), cleaned[variant][transcript])

\* seeded fault: a result marks the controller as listening
handleRecognitionResult_marksActive(st, transcript) ==
    forEach(resetIdleTimeout(updateUIState(st, TRUE)),
            cleaned[variant][transcript])

handleRecognitionResult(st, transcript) ==
    forEach(resetIdleTimeout(st), cleaned[variant][transcript])

\* seeded fault: a network error stops the controller
handleRecognitionError_networkStops(st, errorMessage) ==
    IF errorMessage \in {"not-allowed", "network"}
    THEN stopRecognition(st)
    ELSE st

\* alert() returns; stopRecognition() follows for the kinds that stop
handleRecognitionError(st, errorMessage) ==
    IF variant = 1
    THEN IF errorMessage \in {"not-allowed", "permission-denied", "audio-capture"}
         THEN stopRecognition(st)
         ELSE st
    ELSE IF errorMessage = "not-allowed"
         THEN stopRecognition(st)
         ELSE st

\* SpeechRecognition.prototype.start() throws InvalidStateError on a session
\* that is started; this.recognition.start() throws TypeError on null
startThrows(st, id) == id = Null \/ st.sessions[id] # "idle"

sessionStart(st, id) == [st EXCEPT !.sessions[id] = "running"]

\* seeded fault: a restart re-arms the idle timer
handleRecognitionEnd_rearms(st) ==
    IF st.isListening
    THEN IF startThrows(st, st.recognition)
         THEN stopRecognition(st)
         ELSE resetIdleTimeout(sessionStart(st, st.recognition))
    ELSE st

\* seeded fault: a failed restart is not followed by stopRecognition
handleRecognitionEnd_noFallback(st) ==
    IF st.isListening /\ ~startThrows(st, st.recognition)
    THEN sessionStart(st, st.recognition)
    ELSE st

handleRecognitionEnd(st) ==
    IF st.isListening
    THEN IF startThrows(st, st.recognition)
         THEN stopRecognition(st)
         ELSE sessionStart(st, st.recognition)
    ELSE st

\* window.confirm (variant 1) answers ok; alert (variant 2) only returns
showCommandsList(st, ok) ==
    IF variant = 1 /\ ~ok THEN stopRecognition(st) ELSE st

\* new SpeechRecognition(): an object no one holds and that is not started
FreeSessions(st) ==
    {i \in SessionIds : st.sessions[i] = "idle" /\ i # st.recognition}

\* seeded fault: the state is marked active before the session is constructed
startRecognition_marksFirst(st, ok) ==
    IF ~supported
    THEN handleRecognitionError(updateUIState(st, TRUE), "Unknown error")
    ELSE LET id == Min(FreeSessions(st))
             s1 == sessionStart([st EXCEPT !.recognition = id], id)
             s2 == updateUIState(s1, TRUE)
             s3 == showCommandsList(s2, ok)
         IN  resetIdleTimeout(s3)

startRecognition(st, ok) ==
    IF ~supported
    THEN \* new undefined() throws a TypeError, which has no .error
         handleRecognitionError(st, "Unknown error")
    ELSE LET id == Min(FreeSessions(st))
             s1 == sessionStart([st EXCEPT !.recognition = id], id)
             s2 == updateUIState(s1, TRUE)
             s3 == showCommandsList(s2, ok)
         IN  resetIdleTimeout(s3)

toggleRecognition(st, ok) ==
    IF st.isListening THEN stopRecognition(st) ELSE startRecognition(st, ok)

----------------------------------------------------------------------------
(* State machine *)

NoToken == [command |-> Undefined, at |-> 0, executed |-> FALSE]

NoEvent == [op |-> "init", arg |-> <<>>, log |-> <<>>]

St == [isListening |-> isListening, lastCommand |-> lastCommand,
       lastCommandTime |-> lastCommandTime, recognition |-> recognition,
       idleTimeout |-> idleTimeout, sessions |-> sessions, timers |-> timers,
       scrollY |-> scrollY, heard |-> heard,
       log |-> <<>>, invoked |-> <<>>, scrolled |-> <<>>,
       failAt |-> 0, calls |-> 0, thrown |-> FALSE, caught |-> FALSE]

Commit(st, op, arg) ==
    /\ isListening' = st.isListening
    /\ lastCommand' = st.lastCommand
    /\ lastCommandTime' = st.lastCommandTime
    /\ recognition' = st.recognition
    /\ idleTimeout' = st.idleTimeout
    /\ sessions' = st.sessions
    /\ timers' = st.timers
    /\ scrollY' = st.scrollY
    /\ heard' = st.heard
    /\ ev' = [op |-> op, arg |-> arg, log |-> st.log]
    /\ UNCHANGED <<variant, supported, scrollAmount, now>>

\* constructor: both variants start from the same fields
Init ==
    /\ variant \in {1, 2}
    /\ supported \in BOOLEAN
    /\ scrollAmount = ScrollAmount
    /\ now = LoadTime
    /\ isListening = FALSE
    /\ lastCommand = <<>>
    /\ lastCommandTime = 0
    /\ recognition = Null
    /\ idleTimeout = Null
    /\ sessions = [i \in SessionIds |-> "idle"]
    /\ timers = {}
    /\ scrollY = 0
    /\ heard = NoToken
    /\ ev = NoEvent

\* The state stopRecognition leaves: inactive, no handle, no timer handle
Stopped == ~isListening /\ recognition = Null /\ idleTimeout = Null

\* Time passes
Tick ==
    /\ now < LoadTime + MaxTime
    /\ now' = now + 1
    /\ ev' = [op |-> "tick", arg |-> <<>>, log |-> <<>>]
    /\ UNCHANGED <<variant, supported, scrollAmount, isListening, lastCommand,
                   lastCommandTime, recognition, idleTimeout, sessions,
                   timers, scrollY, heard>>

\* A click or key press on the microphone button; init() attaches the
\* listeners only when recognition is supported.  ev names the method that
\* toggleRecognition ran; for a stop, ev.arg tells whether the controller was
\* stopped already.
Toggle ==
    /\ supported
    /\ isListening \/ FreeSessions(St) # {}
    /\ \E ok \in Answers :
          IF isListening
          THEN Commit(toggleRecognition(St, ok), "stop", Stopped)
          ELSE Commit(toggleRecognition(St, ok), "start", ok)

\* startRecognition() called on the controller
Start ==
    /\ supported => FreeSessions(St) # {}
    /\ \E ok \in Answers : Commit(startRecognition(St, ok), "start", ok)

\* stopRecognition() called on the controller
Stop == Commit(stopRecognition(St), "stop", Stopped)

\* The sessions that are started: running, or stopped and not ended yet
Started == {s \in SessionIds : sessions[s] # "idle"}

\* A started session, also one that stop() was called on and that has not
\* ended yet, delivers a result
OnResult ==
    \E transcript \in Transcripts :
        /\ Started # {}
        /\ Commit(handleRecognitionResult(St, transcript), "result", transcript)

OnError ==
    \E kind \in ErrorKinds :
        /\ Started # {}
        /\ Commit(handleRecognitionError(St, kind), "error", kind)

\* A started session ends, by itself or after stop()
OnEnd ==
    \E s \in Started :
        /\ Commit(handleRecognitionEnd([St EXCEPT !.sessions[s] = "idle"]),
                  "end", s)

\* The idle timer's callback runs, at or after its deadline; ev.arg tells
\* whether the controller was listening
OnIdleTimeout ==
    \E t \in timers :
        /\ now >= t.deadline
        /\ Commit(stopRecognition([St EXCEPT !.timers = @ \ {t}]),
                  "timeout", isListening)

Next ==
    \/ Tick
    \/ Toggle
    \/ Start
    \/ Stop
    \/ OnResult
    \/ OnError
    \/ OnEnd
    \/ OnIdleTimeout

Spec == Init /\ [][Next]_vars

\* The controller configured with a step smaller or larger than the viewport,
\* on a page scrolled to any offset
InitWords ==
    /\ variant \in {1, 2}
    /\ supported = TRUE
    /\ scrollAmount \in {ScrollAmount, InnerHeight + ScrollAmount}
    /\ now = LoadTime
    /\ isListening = FALSE
    /\ lastCommand = <<>>
    /\ lastCommandTime = 0
    /\ recognition = Null
    /\ idleTimeout = Null
    /\ sessions = [i \in SessionIds |-> "idle"]
    /\ timers = {}
    /\ scrollY \in 0..MaxScrollY
    /\ heard = NoToken
    /\ ev = NoEvent

\* A started session delivers a result of one word
OnWord ==
    \E w \in Words :
        /\ Started # {}
        /\ Commit(handleRecognitionResult(St, Utterance(<<w>>)),
                  "result", Utterance(<<w>>))

NextWords ==
    \/ Tick
    \/ Toggle
    \/ OnWord

\* Single words of the wider vocabulary heard by a controller that is driven
\* by its button
SpecWords == InitWords /\ [][NextWords]_vars

\* A result is delivered while the host's scroll surface fails: the k-th
\* window.scrollTo call of the handler throws
OnResultThrowing ==
    \E transcript \in Transcripts, k \in 1..MaxFail :
        /\ Started # {}
        /\ Commit(handleRecognitionResult([St EXCEPT !.failAt = k], transcript),
                  "result", transcript)

NextThrowing ==
    \/ Tick
    \/ Toggle
    \/ OnResult
    \/ OnResultThrowing

\* The controller, driven by its button and by results, on a host whose
\* scroll calls may throw
SpecThrowing == Init /\ [][NextThrowing]_vars

----------------------------------------------------------------------------
(* Properties *)

ctl == <<isListening, lastCommand, lastCommandTime, recognition, idleTimeout>>

Matched(e) == e.command # Undefined

Executed(e) == e.invoked # <<>>

\* C1: every token that selects a command c has c's action invoked exactly
\* once when c differs from lastCommand or more than debounceDelay has passed
\* since lastCommandTime, and not at all otherwise.
C1_DebounceGate ==
    \A i \in DOMAIN ev.log :
        LET e == ev.log[i]
            open == \/ e.command # e.lastCommand
                    \/ e.at - e.lastCommandTime > DebounceDelay
        IN  Matched(e) =>
                e.invoked = IF open THEN <<e.command>> ELSE <<>>

\* one utterance holds a command that executed and a repetition that was
\* suppressed
C1_Witness ==
    \E i, j \in DOMAIN ev.log :
        /\ i < j
        /\ ev.log[i].command = ev.log[j].command
        /\ ev.log[i].invoked = <<ev.log[i].command>>
        /\ Matched(ev.log[j]) /\ ev.log[j].invoked = <<>>

\* The pairs of recognitions the model records: two tokens of one utterance,
\* and a token with the command token heard before it.
PairOk(sameCommand, firstAt, firstExecuted, secondAt, secondExecuted) ==
    sameCommand =>
        IF secondAt - firstAt <= DebounceDelay
        THEN firstExecuted /\ ~secondExecuted
        ELSE firstExecuted /\ secondExecuted

\* C2 as claimed: of any two recognitions of the same command, whatever is
\* recognised between them, only the first executes when they are within
\* debounceDelay of each other, and both execute when they are further apart.
C2_AnyPair ==
    /\ \A i, j \in DOMAIN ev.log :
           (i < j /\ Matched(ev.log[i])) =>
               PairOk(ev.log[i].command = ev.log[j].command,
                      ev.log[i].at, Executed(ev.log[i]),
                      ev.log[j].at, Executed(ev.log[j]))
    /\ \A j \in DOMAIN ev.log :
           Matched(ev.log[j]) =>
               PairOk(ev.log[j].prev.command = ev.log[j].command,
                      ev.log[j].prev.at, ev.log[j].prev.executed,
                      ev.log[j].at, Executed(ev.log[j]))

\* C2 amended: of two recognitions of the same command with no other command
\* recognised between them, the first of which executed, the second is
\* suppressed when it comes within debounceDelay of the first and executes
\* (once) when it comes later.
C2_ConsecutivePair ==
    \A j \in DOMAIN ev.log :
        LET e == ev.log[j]
        IN  (Matched(e) /\ e.prev.command = e.command /\ e.prev.executed) =>
                e.invoked = IF e.at - e.prev.at <= DebounceDelay
                            THEN <<>> ELSE <<e.command>>

\* a command repeated more than debounceDelay after it executed, executing
\* again
C2_Witness ==
    \E j \in DOMAIN ev.log :
        LET e == ev.log[j]
        IN  /\ Matched(e) /\ e.prev.command = e.command /\ e.prev.executed
            /\ e.at - e.prev.at > DebounceDelay
            /\ Executed(e)

\* C3: while the controller listens exactly one idle timer is outstanding; a
\* result or a start sets its deadline idleDuration ahead; end notifications,
\* errors and the passing of time neither re-arm nor postpone it; and when it
\* fires the controller stops listening and no timer is left to fire again.
C3_IdleTimeout ==
    [][ /\ isListening' =>
            /\ Cardinality(timers') = 1
            /\ \A t \in timers' : t.id = idleTimeout'
        /\ (isListening' /\ ev'.op \in {"result", "start"}) =>
            \A t \in timers' : t.deadline = now' + IdleDuration
        /\ ev'.op \in {"end", "error", "tick"} => timers' \subseteq timers
        /\ ev'.op = "timeout" =>
            ~isListening' /\ timers' = {} /\ idleTimeout' = Null
      ]_vars

\* the idle timer has fired on a listening controller
C3_Witness ==
    ev.op = "timeout" /\ ev.arg = TRUE /\ ~isListening /\ now > LoadTime

\* C4: whenever isListening is false no idle timer is outstanding.
C4_IdleMeansDisarmed ==
    ~isListening => (timers = {} /\ idleTimeout = Null)

\* C5: at most one idle timer is outstanding, it is the one this.idleTimeout
\* names, and after a result or a start it is the one scheduled by that
\* result or start.
C5_OneIdleTimer ==
    /\ Cardinality(timers) <= 1
    /\ \A t \in timers : t.id = idleTimeout
    /\ ev.op \in {"result", "start"} =>
           \A t \in timers : t.deadline = now + IdleDuration

\* a result has replaced the timer armed at an earlier time
C5_Witness ==
    /\ ev.op = "result" /\ isListening /\ now > LoadTime
    /\ \E t \in timers : t.deadline = now + IdleDuration

\* C6: an end notification that finds isListening true restarts the session
\* the controller holds and leaves the idle timer as it is; when that start
\* throws (the held session has not ended) the controller is stopped: no
\* handle, no timer, isListening false.  An end notification that finds
\* isListening false changes nothing.
C6_EndNotification ==
    [][ ev'.op = "end" =>
          LET s == ev'.arg
              throws == \/ recognition = Null
                        \/ recognition # s /\ sessions[recognition] # "idle"
          IN  IF ~isListening
              THEN /\ UNCHANGED <<ctl, timers, scrollY>>
                   /\ sessions' = [sessions EXCEPT ![s] = "idle"]
              ELSE IF throws
              THEN /\ ~isListening' /\ recognition' = Null
                   /\ idleTimeout' = Null /\ timers' = {}
              ELSE /\ isListening' /\ recognition' = recognition
                   /\ sessions'[recognition] = "running"
                   /\ UNCHANGED <<idleTimeout, timers>> /\ timers' # {}
      ]_vars

\* the held session ended and was restarted
C6_Witness ==
    /\ ev.op = "end" /\ isListening /\ recognition = ev.arg
    /\ sessions[recognition] = "running" /\ timers # {}

\* C7: after an error notification of kind not-allowed, permission-denied or
\* audio-capture the controller is stopped: isListening false, no handle, no
\* idle timer.
C7_FatalErrorStops ==
    (ev.op = "error" /\
     ev.arg \in {"not-allowed", "permission-denied", "audio-capture"}) =>
        (~isListening /\ recognition = Null /\ idleTimeout = Null /\ timers = {})

\* C8: an error notification of kind no-speech, network or an unlisted kind
\* changes nothing.
C8_TransientErrorFrame ==
    [][ (ev'.op = "error" /\ ev'.arg \in {"no-speech", "network", "aborted"}) =>
            UNCHANGED <<ctl, sessions, timers, scrollY>>
      ]_vars

\* a network error reached a listening controller that has executed a command
C8_Witness ==
    /\ ev.op = "error" /\ ev.arg = "network"
    /\ isListening /\ timers # {} /\ lastCommand # <<>>

\* C9: every stop leaves the controller stopped, and a stop on a stopped
\* controller changes nothing, in the controller or in the host.
C9_StopIdempotent ==
    [][ ev'.op = "stop" =>
            /\ Stopped'
            /\ Stopped => UNCHANGED <<ctl, sessions, timers, scrollY>>
      ]_vars

\* stop was called on a stopped controller that had executed a command
C9_Witness ==
    ev.op = "stop" /\ ev.arg = TRUE /\ lastCommand # <<>>

\* C10: a start on a host without speech recognition leaves the controller
\* idle: isListening false, no handle, no idle timer.
C10_UnsupportedStart ==
    (ev.op = "start" /\ ~supported) =>
        (~isListening /\ recognition = Null /\ idleTimeout = Null /\ timers = {})

\* start was called on a host without speech recognition
C10_Witness ==
    ev.op = "start" /\ ~supported /\ now > LoadTime

\* The sessions that are started and that stop() has not been called on
Running == {s \in SessionIds : sessions[s] = "running"}

\* C11: at most one recognition session is active (started and not stopped)
\* at a time, whatever calls and notifications came before.
C11_OneActiveSession ==
    Cardinality(Running) <= 1

\* A spoken utterance of one or more words, each of them a noise word
AllNoise(transcript) ==
    \E ws \in Utterances :
        /\ ws # <<>>
        /\ transcript = Utterance(ws)
        /\ \A i \in DOMAIN ws : toLowerCase(ws[i]) \in noiseWords(variant)

\* C12: a result whose tokens are all noise words invokes no action, leaves
\* lastCommand, lastCommandTime and the scroll offset unchanged, and re-arms
\* the idle timer for a full idleDuration.
C12_NoiseOnly ==
    [][(ev'.op = "result" /\ AllNoise(ev'.arg)) =>
          /\ \A i \in DOMAIN ev'.log : ev'.log[i].invoked = <<>>
          /\ UNCHANGED <<lastCommand, lastCommandTime, scrollY, isListening>>
          /\ idleTimeout' # Null
          /\ [id |-> idleTimeout', deadline |-> now' + IdleDuration] \in timers'
      ]_vars

\* a result of noise words only arrived after a command had executed and
\* time had passed since the idle timer was armed
C12_Witness ==
    /\ ev.op = "result" /\ AllNoise(ev.arg)
    /\ isListening /\ lastCommand # <<>>
    /\ lastCommandTime < now
    /\ \E t \in timers : t.id = idleTimeout /\ t.deadline = now + IdleDuration

\* The action of the token was invoked and returned
Succeeded(e) == e.invoked # <<>> /\ ~e.threw

\* The debounce fields a token leaves behind
After(e) ==
    IF Succeeded(e) THEN <<e.command, e.at>>
    ELSE <<e.lastCommand, e.lastCommandTime>>

Spoken(transcript) == CHOOSE ws \in Utterances : Utterance(ws) = transcript

\* The words spoken that are not noise words, lower-cased, in spoken order
Kept(ws) ==
    SelectSeq([i \in DOMAIN ws |-> toLowerCase(ws[i])],
              LAMBDA w : w \notin noiseWords(variant))

\* C13: the tokens of a transcript are processed in spoken order, each one
\* against the debounce fields the token before it left; a token whose action
\* threw leaves the fields as it met them, and the tokens after it are
\* processed all the same.
C13_LeftToRight ==
    (ev.op = "result" /\ ev.arg # <<>>) =>
        LET log == ev.log
        IN  /\ [i \in DOMAIN log |-> log[i].word] = Kept(Spoken(ev.arg))
            /\ \A i \in DOMAIN log :
                   i > 1 => <<log[i].lastCommand, log[i].lastCommandTime>>
                                = After(log[i - 1])
            /\ log # <<>> =>
                   <<lastCommand, lastCommandTime>> = After(log[Len(log)])
            /\ \A i \in DOMAIN log :
                   log[i].threw => log[i].invoked = <<log[i].command>>

\* the action of one token threw and a later token of the same transcript
\* executed
C13_Witness ==
    /\ ev.op = "result"
    /\ \E i, j \in DOMAIN ev.log :
           /\ i < j
           /\ ev.log[i].threw
           /\ Succeeded(ev.log[j])
           /\ lastCommand = ev.log[j].command

\* C14: every offset a scroll action requests lies in [0, maxScrollExtent],
\* the extent being the document height that the upper clamp of variant 1
\* uses.
C14_Clamped ==
    \A i \in DOMAIN ev.log :
        \A k \in DOMAIN ev.log[i].scrolled :
            /\ 0 <= ev.log[i].scrolled[k]
            /\ ev.log[i].scrolled[k] <= ScrollHeight

\* The command names in the order the claim lists them
DeclarationOrder == <<cUp, cDown, cTop, cBottom, cFly, cJump, cStop>>

\* name occurs in token with no letter, digit or underscore next to it
Occurs(name, token) ==
    \E pre, post \in {SubSeq(token, a, b) : a \in 1..(Len(token) + 1),
                                            b \in 0..Len(token)} :
        /\ token = pre \o name \o post
        /\ pre # <<>> => ~IsWordChar(pre[Len(pre)])
        /\ post # <<>> => ~IsWordChar(post[1])

\* The first name of order that occurs in token, if any
FirstOccurring(order, token) ==
    IF \A k \in DOMAIN order : ~Occurs(order[k], token)
    THEN Undefined
    ELSE order[CHOOSE k \in DOMAIN order :
                   /\ Occurs(order[k], token)
                   /\ \A m \in 1..(k - 1) : ~Occurs(order[m], token)]

\* The tables of a variant: the seven names, and the names of its own table
Seven == [v \in {1, 2} |->
             [w \in Tokens |-> FirstOccurring(DeclarationOrder, w)]]

OwnTable == [v \in {1, 2} |->
                [w \in Tokens |->
                    FirstOccurring(IF v = 1 THEN DeclarationOrder
                                   ELSE SubSeq(DeclarationOrder, 1, 6), w)]]

\* C15 as claimed: the command selected for a token is the first of up, down,
\* top, bottom, fly, jump, stop that occurs in it delimited by word
\* boundaries, and none when no name occurs.
C15_FirstOfSeven ==
    \A i \in DOMAIN ev.log :
        ev.log[i].command = Seven[variant][ev.log[i].word]

\* C15: the command selected for a token is the first name, in declaration
\* order, of the variant's own command table (up, down, top, bottom, fly,
\* jump, and in variant 1 also stop) that occurs in the token delimited by
\* word boundaries, wherever in the token it occurs, and none when no name
\* occurs; so in variant 2 'stop' selects nothing.
C15_FirstOfTable ==
    \A i \in DOMAIN ev.log :
        ev.log[i].command = OwnTable[variant][ev.log[i].word]

\* 'bottom-up' selected up, the later name in the token and the earlier in
\* the table
C15_Witness ==
    /\ ev.op = "result"
    /\ \E i \in DOMAIN ev.log :
           /\ ev.log[i].word = wBottomUp
           /\ ev.log[i].command = cUp
           /\ ev.log[i].invoked = <<cUp>>

\* C16: lastCommand and lastCommandTime change only in a result handler in
\* which an action was invoked and returned, and then to the last such command
\* and the time of the result; tokens that select nothing, suppressed
\* repetitions, error and end notifications, the idle timer, start and stop
\* leave both as they were; lastCommandTime never decreases.
C16_LastCommandFrame ==
    [][LET ok == {i \in DOMAIN ev'.log : Succeeded(ev'.log[i])}
       IN  /\ <<lastCommand, lastCommandTime>>' # <<lastCommand, lastCommandTime>>
                  => /\ ev'.op = "result"
                     /\ ok # {}
                     /\ \E i \in ok :
                            /\ \A j \in ok : j <= i
                            /\ lastCommand' = ev'.log[i].command
                            /\ lastCommandTime' = now'
           /\ ok = {} => UNCHANGED <<lastCommand, lastCommandTime>>
           /\ lastCommandTime' >= lastCommandTime
      ]_vars

\* a result whose only command was a suppressed repetition left the fields
\* of the earlier execution in place
C16_Witness ==
    /\ ev.op = "result"
    /\ \E i \in DOMAIN ev.log :
           /\ Matched(ev.log[i]) /\ ev.log[i].invoked = <<>>
           /\ lastCommand = ev.log[i].command
    /\ \A i \in DOMAIN ev.log : ~Succeeded(ev.log[i])
    /\ lastCommandTime < now

\* C17: isListening turns from false to true only in start; a result, error
\* or end notification or the idle timer reaching a controller that is not
\* listening leaves it not listening and starts no session.
C17_NoSelfResume ==
    [][/\ (~isListening /\ isListening') => ev'.op = "start"
       /\ (ev'.op \in {"result", "error", "end", "timeout"} /\ ~isListening)
             => /\ ~isListening'
                /\ recognition' = recognition
                /\ \A s \in SessionIds :
                       sessions'[s] = "running" => sessions[s] = "running"
      ]_vars

\* a session that was stopped and has not ended delivered a command to a
\* controller that was not listening, and the controller stayed so
C17_Witness ==
    /\ ev.op = "result"
    /\ ev.log # <<>>
    /\ ~ev.log[1].listening
    /\ Matched(ev.log[1])
    /\ ~isListening
    /\ \E s \in SessionIds : sessions[s] = "stopping"

\* C18: no action is invoked for a token met while isListening is false, and
\* a result that leaves the controller not listening leaves no idle timer
\* armed.
C18_NoActionWhileIdle ==
    /\ \A i \in DOMAIN ev.log :
           ~ev.log[i].listening => ev.log[i].invoked = <<>>
    /\ (ev.op = "result" /\ ~isListening) => idleTimeout = Null

\* C19: when a session on which stop was called ends while the controller is
\* listening with a newer, running session, the controller stays listening
\* with that session.
C19_LateEndKeepsNewer ==
    [][(/\ ev'.op = "end"
        /\ isListening
        /\ recognition # Null
        /\ recognition # ev'.arg
        /\ sessions[recognition] = "running"
        /\ sessions[ev'.arg] = "stopping")
          => /\ isListening'
             /\ recognition' = recognition
             /\ sessions'[recognition] = "running"
      ]_vars

====
